---- MODULE Spec2Model ----
(***************************************************************************)
(* Model of Scripts/extract_media.py: the asset manifest builder, the      *)
(* stage operations (dds_to_png, png_to_avif, crop_sprite) and the         *)
(* pipeline driver main().                                                 *)
(*                                                                         *)
(* A path is the sequence of its components, as pathlib keeps it; an       *)
(* absolute path starts with the component "/".  The contents of a metadata *)
(* file are a JSON value, a record [t, s, n, items]: t is the JSON type,   *)
(* s the text of a string, n the value of a number, items the elements of  *)
(* an array or the members [k, v] of an object in file order.               *)
(***************************************************************************)
EXTENDS Integers, Sequences, FiniteSets, TLC

VARIABLES
    args,       \* parsed command line: [no_avif, dry_run, jobs]
    env,        \* what the run finds outside: [tech_dir, tech_file, swap_file, magick, avifenc]
    pc,         \* position of main(); "raised" when an uncaught exception left it
    result,     \* the value main() returned, -1 until it returns
    manifest,   \* list[AssetEntry] returned by build_asset_manifest
    idx,        \* 1-based index of the manifest entry the loop is at
    crop,       \* 1-based index of the crop region the crop pass is at
    stats,      \* Stats
    files,      \* regular files present under the output root
    dirs,       \* directories present under the output root
    calls,      \* stage operations invoked so far, in order, with their outcome
    built       \* result of the last build_asset_manifest call (builder harness)

vars == <<args, env, pc, result, manifest, idx, crop, stats, files, dirs, calls, built>>

----------------------------------------------------------------------------
(* Fixed asset lists, lines 42-72 *)

CATEGORY_ICONS ==
    << "archaeostudies", "biology", "computing", "field_manipulation",
       "industry", "materials", "military_theory", "new_worlds",
       "particles", "propulsion", "psionics", "statecraft", "voidcraft" >>

BACKGROUND_TEXTURES ==
    << <<"tech_bg_physics",     "gfx/interface/tech_view/tech_bg_physics.dds">>,
       <<"tech_bg_society",     "gfx/interface/tech_view/tech_bg_society.dds">>,
       <<"tech_bg_engineering", "gfx/interface/tech_view/tech_bg_engineering.dds">>,
       <<"tech_bg_rare",        "gfx/interface/tech_view/tech_bg_rare.dds">>,
       <<"tech_bg_dangerous",   "gfx/interface/tech_view/tech_bg_dangerous.dds">> >>

UI_TEXTURES ==
    << <<"background_tutorial_detailed",
         "gfx/interface/tutorial_mission_window/background_tutorial_detailed.dds">>,
       <<"extradimensional_blue_room",
         "gfx/portraits/city_sets/extradimensional_blue_room.dds">> >>

CHECKBOX_SPRITE ==
    << <<"button_24_24_checkbox", "gfx/interface/buttons/button_24_24_checkbox.dds">> >>

CHECKBOX_REGIONS ==
    << <<"checkbox_normal",  <<11, 11, 26, 26>> >>,
       <<"checkbox_pressed", <<59, 11, 26, 26>> >>,
       <<"checkbox_hover",   <<107, 11, 26, 26>> >> >>

SUBDIRS == <<"tech_icons", "swap_icons", "category_icons", "backgrounds", "ui", "sprites">>

----------------------------------------------------------------------------
(* pathlib: base / "text" *)

\* text.split("/"), scanning from character i with the current component
\* starting at character start
RECURSIVE SplitFrom(_, _, _)
SplitFrom(text, start, i) ==
    IF i > Len(text) THEN <<SubSeq(text, start, Len(text))>>
    ELSE IF SubSeq(text, i, i) = "/"
    THEN <<SubSeq(text, start, i - 1)>> \o SplitFrom(text, i + 1, i + 1)
    ELSE SplitFrom(text, start, i + 1)

Split(text) == SplitFrom(text, 1, 1)

\* the components pathlib keeps of a text: empty components and "." are dropped
Parts(text) == SelectSeq(Split(text), LAMBDA c : c # "" /\ c # ".")

\* base / text: the components of text are appended, unless text is absolute,
\* which replaces base
PathJoin(base, text) ==
    IF Len(text) > 0 /\ SubSeq(text, 1, 1) = "/"
    THEN <<"/">> \o Parts(text)
    ELSE base \o Parts(text)

----------------------------------------------------------------------------
(* JSON values as json.load returns them *)

JStr(s) == [t |-> "str", s |-> s, n |-> 0, items |-> <<>>]
JNum(n) == [t |-> "num", s |-> "", n |-> n, items |-> <<>>]
JArr(xs) == [t |-> "arr", s |-> "", n |-> 0, items |-> xs]
JObj(kvs) == [t |-> "obj", s |-> "", n |-> 0, items |-> kvs]

Range(f) == {f[i] : i \in DOMAIN f}

\* dict.values(), in the order of the file
DictValues(d) == [i \in 1..Len(d.items) |-> d.items[i].v]

\* key in dict
HasKey(d, k) == \E i \in 1..Len(d.items) : d.items[i].k = k

\* dict[key]
DictGet(d, k) == d.items[CHOOSE i \in 1..Len(d.items) : d.items[i].k = k].v

\* hash(v) succeeds: str and int are hashable, list and dict are not
Hashable(v) == v.t \in {"str", "num"}

\* a in b for two str values: a occurs in b as a substring
IsSubstring(a, b) ==
    \E i \in 1..(Len(b) - Len(a) + 1) : SubSeq(b, i, i + Len(a) - 1) = a

\* the characters of a str, as iterating over it yields them
Chars(s) == [i \in 1..Len(s) |-> JStr(SubSeq(s, i, i))]

\* f"{v}" of a str or an int
Format(v) == IF v.t = "str" THEN v.s ELSE ToString(v.n)

----------------------------------------------------------------------------
(* sorted(): ascending order of the elements; str compares by code point,  *)
(* int by value, and a str does not compare with an int (TypeError)        *)

Alphabet == "./0123456789_abcdefghijklmnopqrstuvwxyz"

Ord(c) == CHOOSE i \in 1..Len(Alphabet) : SubSeq(Alphabet, i, i) = c

RECURSIVE StrLess(_, _)
StrLess(a, b) ==
    IF Len(b) = 0 THEN FALSE
    ELSE IF Len(a) = 0 THEN TRUE
    ELSE IF SubSeq(a, 1, 1) = SubSeq(b, 1, 1)
         THEN StrLess(SubSeq(a, 2, Len(a)), SubSeq(b, 2, Len(b)))
         ELSE Ord(SubSeq(a, 1, 1)) < Ord(SubSeq(b, 1, 1))

\* a < b for two values of the same type
ValueLess(a, b) == IF a.t = "str" THEN StrLess(a.s, b.s) ELSE a.n < b.n

\* sorted(S) raises TypeError: S holds a str and an int
Unorderable(S) == \E a \in S, b \in S : a.t # b.t

RECURSIVE Sorted(_)
Sorted(S) ==
    IF S = {} THEN <<>>
    ELSE LET m == CHOOSE x \in S : \A y \in S \ {x} : ValueLess(x, y)
         IN  <<m>> \o Sorted(S \ {m})

----------------------------------------------------------------------------
(* A metadata file of the data directory: absent, not valid JSON, or JSON *)

AbsentFile == [kind |-> "absent", value |-> JNum(0)]
InvalidFile == [kind |-> "invalid", value |-> JNum(0)]
JsonFile(v) == [kind |-> "json", value |-> v]

\* with open(path) as f: json.load(f) -- the exception it raises, "none" when it returns
LoadError(file) ==
    IF file.kind = "absent" THEN "FileNotFoundError"
    ELSE IF file.kind = "invalid" THEN "JSONDecodeError"
    ELSE "none"

\* the first exception of a sequence of steps, "none" when no step raises
FirstError(errs) ==
    IF \A i \in DOMAIN errs : errs[i] = "none" THEN "none"
    ELSE errs[CHOOSE i \in DOMAIN errs :
                 errs[i] # "none" /\ \A j \in 1..(i - 1) : errs[j] = "none"]

\* t["icon"] put into a set, line 205: the exception it raises for one value t
TechIconError(t) ==
    IF t.t # "obj" THEN "TypeError"
    ELSE IF ~HasKey(t, "icon") THEN "KeyError"
    ELSE IF ~Hashable(DictGet(t, "icon")) THEN "TypeError"
    ELSE "none"

\* TechIcons with a list comprehension in place of the set: duplicates are kept
TechIconsList(techs) ==
    IF techs.t # "obj" THEN [exc |-> "AttributeError", icons |-> <<>>]
    ELSE LET vals == DictValues(techs)
             err  == FirstError([i \in DOMAIN vals |-> TechIconError(vals[i])])
         IN  IF err # "none" THEN [exc |-> err, icons |-> <<>>]
             ELSE [exc |-> "none", icons |-> [i \in DOMAIN vals |-> DictGet(vals[i], "icon")]]

\* TechIcons without sorted(): the distinct icons in the order of the file
TechIconsFileOrder(techs) ==
    IF techs.t # "obj" THEN [exc |-> "AttributeError", icons |-> <<>>]
    ELSE LET vals   == DictValues(techs)
             err    == FirstError([i \in DOMAIN vals |-> TechIconError(vals[i])])
             icon(i) == DictGet(vals[i], "icon")
             firsts == {i \in DOMAIN vals : \A j \in 1..(i - 1) : icon(j) # icon(i)}
         IN  IF err # "none" THEN [exc |-> err, icons |-> <<>>]
             ELSE [exc |-> "none",
                   icons |-> [k \in 1..Cardinality(firsts) |->
                                icon(CHOOSE i \in firsts :
                                        Cardinality({j \in firsts : j < i}) = k - 1)]]

\* sorted({t["icon"] for t in techs.values()}), line 205
TechIcons(techs) ==
    IF techs.t # "obj" THEN [exc |-> "AttributeError", icons |-> <<>>]
    ELSE LET vals == DictValues(techs)
             err  == FirstError([i \in DOMAIN vals |-> TechIconError(vals[i])])
             set  == {DictGet(vals[i], "icon") : i \in DOMAIN vals}
         IN  IF err # "none" THEN [exc |-> err, icons |-> <<>>]
             ELSE IF Unorderable(set) THEN [exc |-> "TypeError", icons |-> <<>>]
             ELSE [exc |-> "none", icons |-> Sorted(set)]

\* for swap in swap_list, line 226: TRUE when swap_list can be iterated
Iterable(v) == v.t \in {"arr", "obj", "str"}

\* what iterating over swap_list yields: the elements of a list, the keys of a
\* dict, the characters of a str
IterItems(v) ==
    IF v.t = "arr" THEN v.items
    ELSE IF v.t = "obj" THEN [i \in 1..Len(v.items) |-> JStr(v.items[i].k)]
    ELSE Chars(v.s)

\* "name" in swap, line 227, for a swap on which the test does not raise
HasName(swap) ==
    IF swap.t = "obj" THEN HasKey(swap, "name")
    ELSE IF swap.t = "arr" THEN JStr("name") \in Range(swap.items)
    ELSE IsSubstring("name", swap.s)

\* lines 227-228 for one swap: the exception they raise
SwapError(swap) ==
    IF swap.t = "num" THEN "TypeError"
    ELSE IF ~HasName(swap) THEN "none"
    ELSE IF swap.t # "obj" THEN "TypeError"
    ELSE IF ~Hashable(DictGet(swap, "name")) THEN "TypeError"
    ELSE "none"

\* lines 226-228 for one swap_list: the exception they raise
SwapListError(swap_list) ==
    IF ~Iterable(swap_list) THEN "TypeError"
    ELSE LET xs == IterItems(swap_list)
         IN  FirstError([i \in DOMAIN xs |-> SwapError(xs[i])])

\* the names one swap_list adds to swap_icons, lines 226-228
SwapListNames(swap_list) ==
    LET xs == IterItems(swap_list)
    IN  {DictGet(xs[i], "name") : i \in {j \in DOMAIN xs : xs[j].t = "obj" /\ HasName(xs[j])}}

\* SwapIcons without line 230: the names that are tech icons stay
SwapIconsNoDedup(swaps, tech_icons) ==
    IF swaps.t # "obj" THEN [exc |-> "AttributeError", icons |-> <<>>]
    ELSE LET vals == DictValues(swaps)
             err  == FirstError([i \in DOMAIN vals |-> SwapListError(vals[i])])
             set  == UNION {SwapListNames(vals[i]) : i \in DOMAIN vals}
         IN  IF err # "none" THEN [exc |-> err, icons |-> <<>>]
             ELSE IF Unorderable(set) THEN [exc |-> "TypeError", icons |-> <<>>]
             ELSE [exc |-> "none", icons |-> Sorted(set)]

\* SwapIcons reading a document that is no mapping as one without swap groups
SwapIconsUnchecked(swaps, tech_icons) ==
    IF swaps.t # "obj" THEN [exc |-> "none", icons |-> <<>>]
    ELSE LET vals == DictValues(swaps)
             err  == FirstError([i \in DOMAIN vals |-> SwapListError(vals[i])])
             all  == UNION {SwapListNames(vals[i]) : i \in DOMAIN vals}
             set  == all \ Range(tech_icons)
         IN  IF err # "none" THEN [exc |-> err, icons |-> <<>>]
             ELSE IF Unorderable(set) THEN [exc |-> "TypeError", icons |-> <<>>]
             ELSE [exc |-> "none", icons |-> Sorted(set)]

\* lines 224-231: the swap names that are no tech icon, sorted
SwapIcons(swaps, tech_icons) ==
    IF swaps.t # "obj" THEN [exc |-> "AttributeError", icons |-> <<>>]
    ELSE LET vals == DictValues(swaps)
             err  == FirstError([i \in DOMAIN vals |-> SwapListError(vals[i])])
             all  == UNION {SwapListNames(vals[i]) : i \in DOMAIN vals}
             set  == all \ Range(tech_icons)
         IN  IF err # "none" THEN [exc |-> err, icons |-> <<>>]
             ELSE IF Unorderable(set) THEN [exc |-> "TypeError", icons |-> <<>>]
             ELSE [exc |-> "none", icons |-> Sorted(set)]

----------------------------------------------------------------------------
(* AssetEntry, lines 78-86, and build_asset_manifest, lines 188-290 *)

AssetEntry(name, category, src_dds, dst_png, dst_avif, lossless) ==
    [name |-> name, category |-> category, src_dds |-> src_dds,
     dst_png |-> dst_png, dst_avif |-> dst_avif, lossless |-> lossless]

\* "gfx/interface/icons/technologies" as path components, lines 212 and 238
TechnologiesDir == Parts("gfx/interface/icons/technologies")

\* the entry of one technology or swap icon, lines 209-216 and 235-242
IconEntry(icon, category, stellaris_path, output_dir) ==
    AssetEntry(icon, category,
        PathJoin(stellaris_path \o TechnologiesDir, Format(icon) \o ".dds"),
        PathJoin(PathJoin(PathJoin(output_dir, "png"), category), Format(icon) \o ".png"),
        PathJoin(PathJoin(PathJoin(output_dir, "avif"), category), Format(icon) \o ".avif"),
        TRUE)

\* one entry of a fixed list with its paths relative to the installation root
\* and the output root: none of the fixed texts is an absolute path
RelEntry(name, category, rel_path, lossless) ==
    AssetEntry(JStr(name), category,
        Parts(rel_path),
        PathJoin(PathJoin(<<"png">>, category), name \o ".png"),
        PathJoin(PathJoin(<<"avif">>, category), name \o ".avif"),
        lossless)

\* the entries of the category icons, lines 245-254
CategoryEntries ==
    [i \in DOMAIN CATEGORY_ICONS |->
        LET name == "category_" \o CATEGORY_ICONS[i]
        IN  RelEntry(name, "category_icons",
                     "gfx/interface/icons/technologies/categories/" \o name \o ".dds", TRUE)]

\* TextureEntries with the default lossless=True of AssetEntry
TextureEntriesLossless(mapping, category, lossless) ==
    [i \in DOMAIN mapping |-> RelEntry(mapping[i][1], category, mapping[i][2], TRUE)]

\* the entries of the textures of a fixed mapping, lines 257-287
TextureEntries(mapping, category, lossless) ==
    [i \in DOMAIN mapping |-> RelEntry(mapping[i][1], category, mapping[i][2], lossless)]

\* FixedRelEntries with the ui textures before the backgrounds
FixedRelEntriesUiFirst ==
    CategoryEntries
    \o TextureEntries(UI_TEXTURES, "ui", FALSE)
    \o TextureEntries(BACKGROUND_TEXTURES, "backgrounds", FALSE)
    \o TextureEntries(CHECKBOX_SPRITE, "sprites", TRUE)

\* lines 244-287 in order, relative to the two roots
FixedRelEntries ==
    CategoryEntries
    \o TextureEntries(BACKGROUND_TEXTURES, "backgrounds", FALSE)
    \o TextureEntries(UI_TEXTURES, "ui", FALSE)
    \o TextureEntries(CHECKBOX_SPRITE, "sprites", TRUE)

\* the part of the manifest that does not depend on the metadata, lines 244-287
FixedEntries(stellaris_path, output_dir) ==
    [i \in DOMAIN FixedRelEntries |->
        [FixedRelEntries[i] EXCEPT
            !.src_dds = stellaris_path \o @,
            !.dst_png = output_dir \o @,
            !.dst_avif = output_dir \o @]]

\* build_asset_manifest: [exc, manifest]; exc is the exception that leaves the
\* function, "none" when it returns the manifest
build_asset_manifest(stellaris_path, tech_file, swap_file, output_dir) ==
    LET raise(e) == [exc |-> e, manifest |-> <<>>]
    IN
    IF LoadError(tech_file) # "none" THEN raise(LoadError(tech_file))
    ELSE LET tech == TechIcons(tech_file.value) IN
    IF tech.exc # "none" THEN raise(tech.exc)
    ELSE IF LoadError(swap_file) # "none" THEN raise(LoadError(swap_file))
    ELSE LET swap == SwapIcons(swap_file.value, tech.icons) IN
    IF swap.exc # "none" THEN raise(swap.exc)
    ELSE [exc |-> "none",
          manifest |->
              [i \in DOMAIN tech.icons |->
                  IconEntry(tech.icons[i], "tech_icons", stellaris_path, output_dir)]
              \o [i \in DOMAIN swap.icons |->
                  IconEntry(swap.icons[i], "swap_icons", stellaris_path, output_dir)]
              \o FixedEntries(stellaris_path, output_dir)]

----------------------------------------------------------------------------
(* The file system under the output root, and the external tools *)

\* What subprocess.run of an external tool can do: exit 0, exit nonzero,
\* exceed the timeout (TimeoutExpired), or fail to start (OSError)
Outcomes == {"ok", "nonzero", "timeout", "exception"}

\* the return value of a stage operation, or "raised" when an exception leaves it
Returns == {"True", "False", "raised"}

\* path.parent
Parent(path) == SubSeq(path, 1, Len(path) - 1)

\* a directory and all the directories above it
Parents(d) == {SubSeq(d, 1, k) : k \in 1..Len(d)}

\* d.mkdir(parents=True, exist_ok=True): an existing directory is left alone, a
\* missing one is created with its parents, and OSError is raised when it
\* cannot be created
mkdir(d, fs_dirs, writable) ==
    IF d \in fs_dirs THEN [raised |-> FALSE, dirs |-> fs_dirs]
    ELSE IF writable THEN [raised |-> FALSE, dirs |-> fs_dirs \cup Parents(d)]
    ELSE [raised |-> TRUE, dirs |-> fs_dirs]

\* the last n characters of the file name of a path
Suffix(path, n) ==
    LET name == path[Len(path)]
    IN  IF Len(name) < n THEN name ELSE SubSeq(name, Len(name) - n + 1, Len(name))

\* sizes of the files the run meets, by format
DdsSize == 4
PngSize == 3
AvifSize == 1

StSize(path) ==
    IF Suffix(path, 4) = ".dds" THEN DdsSize
    ELSE IF Suffix(path, 4) = ".png" THEN PngSize
    ELSE AvifSize

\* file_size, lines 385-390: st_size, or 0 if the file does not exist
file_size(path, fs_files) == IF path \in fs_files THEN StSize(path) ELSE 0

\* str(path)
RECURSIVE PathStr(_)
PathStr(path) ==
    IF Len(path) = 0 THEN "."
    ELSE IF Len(path) = 1 THEN path[1]
    ELSE IF Parent(path) = <<"/">> THEN "/" \o path[Len(path)]
    ELSE PathStr(Parent(path)) \o "/" \o path[Len(path)]

----------------------------------------------------------------------------
(* Stage operations, lines 296-369.  Each yields [ret, cmd, dirs, files]:  *)
(* ret is what the caller gets, cmd the command line that was run (empty    *)
(* when none was), dirs and files the file system afterwards.              *)

\* lines 300-313, 335-348, 361-369: the try block around subprocess.run
TryRun(cmd, dst, outcome, fs_dirs, fs_files) ==
    IF outcome = "ok"
    THEN [ret |-> "True", cmd |-> cmd, dirs |-> fs_dirs, files |-> fs_files \cup {dst}]
    ELSE [ret |-> "False", cmd |-> cmd, dirs |-> fs_dirs, files |-> fs_files]

\* the exception of a failed mkdir leaves the operation
MkdirRaised(fs_dirs, fs_files) ==
    [ret |-> "raised", cmd |-> <<>>, dirs |-> fs_dirs, files |-> fs_files]

dds_to_png(src, dst, outcome, fs_dirs, fs_files, writable) ==
    LET m   == mkdir(Parent(dst), fs_dirs, writable)
        cmd == <<"magick", PathStr(src), PathStr(dst)>>
    IN  IF m.raised THEN MkdirRaised(fs_dirs, fs_files)
        ELSE TryRun(cmd, dst, outcome, m.dirs, fs_files)

png_to_avif(src, dst, lossless, jobs, outcome, fs_dirs, fs_files, writable) ==
    LET m        == mkdir(Parent(dst), fs_dirs, writable)
        jobs_arg == IF jobs > 0 THEN ToString(jobs) ELSE "all"
        cmd      == IF lossless
                    THEN <<"avifenc", "--lossless", "-s", "0",
                           "-j", jobs_arg, PathStr(src), PathStr(dst)>>
                    ELSE <<"avifenc", "-q", "90", "--qalpha", "100",
                           "-s", "0", "-y", "444",
                           "-j", jobs_arg, PathStr(src), PathStr(dst)>>
    IN  IF m.raised THEN MkdirRaised(fs_dirs, fs_files)
        ELSE TryRun(cmd, dst, outcome, m.dirs, fs_files)

crop_sprite(src_png, region, dst_png, outcome, fs_dirs, fs_files, writable) ==
    LET m   == mkdir(Parent(dst_png), fs_dirs, writable)
        x   == region[1]
        y   == region[2]
        w   == region[3]
        h   == region[4]
        cmd == <<"magick", PathStr(src_png), "-crop",
                 ToString(w) \o "x" \o ToString(h) \o "+" \o ToString(x) \o "+" \o ToString(y),
                 "+repage", PathStr(dst_png)>>
    IN  IF m.raised THEN MkdirRaised(fs_dirs, fs_files)
        ELSE TryRun(cmd, dst_png, outcome, m.dirs, fs_files)

\* one entry of the invocation log
Call(op, dst, lossless, r) ==
    [op |-> op, dst |-> dst, lossless |-> lossless, ret |-> r.ret]

----------------------------------------------------------------------------
(* main(), lines 396-581 *)

\* Stats(total=n), lines 89-100 and 470
Stats(n) ==
    [total |-> n, converted |-> 0, skipped |-> 0, failed |-> 0,
     dds_bytes |-> 0, png_bytes |-> 0, avif_bytes |-> 0,
     errors |-> <<>>, warnings |-> <<>>]

\* bounds of the environment: how many sources may be missing or tool runs may
\* fail in one run
MaxFaults == 1

\* sources found missing and tool runs that failed so far
Faults == stats.skipped + Cardinality({i \in DOMAIN calls : calls[i].ret # "True"})

\* what the next tool run may do
NextOutcomes == IF Faults < MaxFaults THEN Outcomes ELSE {"ok"}

\* check_tool, lines 176-182: shutil.which(name) found the tool
check_tool(name) == IF name = "magick" THEN env.magick ELSE env.avifenc

\* PreflightPasses requiring avifenc whether or not --no-avif is given
PreflightNeedsAvifenc ==
    /\ env.tech_dir
    /\ env.tech_file.kind # "absent"
    /\ check_tool("magick")
    /\ check_tool("avifenc")

\* lines 411-433: TRUE when no check of the pre-flight validation returns 1
PreflightPasses ==
    /\ env.tech_dir
    /\ env.tech_file.kind # "absent"
    /\ check_tool("magick")
    /\ (args.no_avif \/ check_tool("avifenc"))

\* lines 411-433
Preflight ==
    /\ pc = "start"
    /\ IF PreflightPasses
       THEN pc' = "build" /\ UNCHANGED result
       ELSE pc' = "exit_preflight" /\ result' = 1
    /\ UNCHANGED <<args, env, manifest, idx, crop, stats, files, dirs, calls, built>>

\* lines 436-438: an exception of build_asset_manifest is not caught by main
BuildManifest ==
    /\ pc = "build"
    /\ LET r == build_asset_manifest(args.stellaris_path, env.tech_file,
                                     env.swap_file, args.output_dir)
       IN  IF r.exc # "none"
           THEN pc' = "raised" /\ UNCHANGED <<manifest, result>>
           ELSE pc' = "built" /\ manifest' = r.manifest /\ UNCHANGED result
    /\ UNCHANGED <<args, env, idx, crop, stats, files, dirs, calls, built>>

\* OutputSubdirs with the avif directories whether or not --no-avif is given
OutputSubdirsAll ==
    {PathJoin(PathJoin(args.output_dir, "png"), SUBDIRS[i]) : i \in DOMAIN SUBDIRS}
    \cup {PathJoin(PathJoin(args.output_dir, "avif"), SUBDIRS[i]) : i \in DOMAIN SUBDIRS}

\* the directories lines 464-467 create
OutputSubdirs ==
    {PathJoin(PathJoin(args.output_dir, "png"), SUBDIRS[i]) : i \in DOMAIN SUBDIRS}
    \cup (IF args.no_avif THEN {}
          ELSE {PathJoin(PathJoin(args.output_dir, "avif"), SUBDIRS[i]) : i \in DOMAIN SUBDIRS})

\* DryRun placed after the creation of the output directories
DryRunAfterCreateDirs ==
    /\ pc = "built"
    /\ args.dry_run
    /\ pc' = "exit_dry_run"
    /\ result' = 0
    /\ dirs' = dirs \cup UNION {Parents(d) : d \in OutputSubdirs}
    /\ UNCHANGED <<args, env, manifest, idx, crop, stats, files, calls, built>>

\* lines 441-461: list the manifest and return 0
DryRun ==
    /\ pc = "built"
    /\ args.dry_run
    /\ pc' = "exit_dry_run"
    /\ result' = 0
    /\ UNCHANGED <<args, env, manifest, idx, crop, stats, files, dirs, calls, built>>

\* lines 463-471: create the output directories, start the statistics
CreateDirs ==
    /\ pc = "built"
    /\ ~args.dry_run
    /\ IF \E d \in OutputSubdirs : mkdir(d, dirs, env.out_writable).raised
       THEN /\ pc' = "raised"
            /\ UNCHANGED <<dirs, stats, idx, result>>
       ELSE /\ dirs' = dirs \cup UNION {Parents(d) : d \in OutputSubdirs}
            /\ stats' = Stats(Len(manifest))
            /\ idx' = 1
            /\ pc' = "loop"
            /\ UNCHANGED result
    /\ UNCHANGED <<args, env, manifest, crop, files, calls, built>>

\* f"{entry.category}/{entry.name}", lines 480, 490, 501
Label(entry) == entry.category \o "/" \o Format(entry.name)

\* the loop goes to the next entry (continue, or the end of the body)
NextEntry ==
    /\ idx' = idx + 1
    /\ pc' = "loop"

\* AssetSkip counting the missing source as a failure too
AssetSkipAsFailure ==
    /\ pc = "loop"
    /\ idx <= Len(manifest)
    /\ Faults < MaxFaults
    /\ stats' = [stats EXCEPT
                   !.skipped = @ + 1,
                   !.failed = @ + 1,
                   !.warnings = Append(@, Label(manifest[idx]) \o ": DDS missing")]
    /\ NextEntry
    /\ UNCHANGED <<args, env, result, manifest, crop, files, dirs, calls, built>>

\* lines 476-481: the source is not a file; count the asset as skipped
AssetSkip ==
    /\ pc = "loop"
    /\ idx <= Len(manifest)
    /\ Faults < MaxFaults
    /\ stats' = [stats EXCEPT
                   !.skipped = @ + 1,
                   !.warnings = Append(@, Label(manifest[idx]) \o ": DDS missing")]
    /\ NextEntry
    /\ UNCHANGED <<args, env, result, manifest, crop, files, dirs, calls, built>>

\* AssetStageOne without the continue of line 492: a failed asset goes on to stage two
AssetStageOneNoContinue ==
    /\ pc = "loop"
    /\ idx <= Len(manifest)
    /\ \E outcome \in NextOutcomes :
        LET entry == manifest[idx]
            r == dds_to_png(entry.src_dds, entry.dst_png, outcome,
                            dirs, files, env.out_writable)
            dds_size == file_size(entry.src_dds, {entry.src_dds})
            st == [stats EXCEPT !.dds_bytes = @ + dds_size]
        IN  /\ calls' = Append(calls, Call("dds_to_png", entry.dst_png, TRUE, r))
            /\ dirs' = r.dirs
            /\ files' = r.files
            /\ IF r.ret = "raised"
               THEN pc' = "raised" /\ stats' = st /\ UNCHANGED <<idx, result>>
               ELSE IF r.ret = "False"
               THEN /\ stats' = [st EXCEPT
                                   !.failed = @ + 1,
                                   !.errors = Append(@, Label(entry) \o ": DDS→PNG failed")]
                    /\ pc' = "avif"
                    /\ UNCHANGED <<idx, result>>
               ELSE /\ stats' = [st EXCEPT
                                   !.png_bytes = @ + file_size(entry.dst_png, r.files)]
                    /\ pc' = "avif"
                    /\ UNCHANGED <<idx, result>>
    /\ UNCHANGED <<args, env, manifest, crop, built>>

\* lines 483-494: the source is a file; DDS to PNG
AssetStageOne ==
    /\ pc = "loop"
    /\ idx <= Len(manifest)
    /\ \E outcome \in NextOutcomes :
        LET entry == manifest[idx]
            r == dds_to_png(entry.src_dds, entry.dst_png, outcome,
                            dirs, files, env.out_writable)
            dds_size == file_size(entry.src_dds, {entry.src_dds})
            st == [stats EXCEPT !.dds_bytes = @ + dds_size]
        IN  /\ calls' = Append(calls, Call("dds_to_png", entry.dst_png, TRUE, r))
            /\ dirs' = r.dirs
            /\ files' = r.files
            /\ IF r.ret = "raised"
               THEN pc' = "raised" /\ stats' = st /\ UNCHANGED <<idx, result>>
               ELSE IF r.ret = "False"
               THEN /\ stats' = [st EXCEPT
                                   !.failed = @ + 1,
                                   !.errors = Append(@, Label(entry) \o ": DDS→PNG failed")]
                    /\ NextEntry
                    /\ UNCHANGED result
               ELSE /\ stats' = [st EXCEPT
                                   !.png_bytes = @ + file_size(entry.dst_png, r.files)]
                    /\ pc' = "avif"
                    /\ UNCHANGED <<idx, result>>
    /\ UNCHANGED <<args, env, manifest, crop, built>>

\* AssetStageTwo removing the intermediate PNG when the conversion fails
AssetStageTwoRollback ==
    /\ pc = "avif"
    /\ ~args.no_avif
    /\ \E outcome \in NextOutcomes :
        LET entry == manifest[idx]
            r == png_to_avif(entry.dst_png, entry.dst_avif, entry.lossless, args.jobs,
                             outcome, dirs, files, env.out_writable)
        IN  /\ calls' = Append(calls, Call("png_to_avif", entry.dst_avif, entry.lossless, r))
            /\ dirs' = r.dirs
            /\ IF r.ret = "raised"
               THEN pc' = "raised" /\ files' = r.files /\ UNCHANGED <<stats, idx, result>>
               ELSE IF r.ret = "False"
               THEN /\ stats' = [stats EXCEPT
                                   !.failed = @ + 1,
                                   !.errors = Append(@, Label(entry) \o ": PNG→AVIF failed")]
                    /\ files' = r.files \ {entry.dst_png}
                    /\ NextEntry
                    /\ UNCHANGED result
               ELSE /\ stats' = [stats EXCEPT
                                   !.avif_bytes = @ + file_size(entry.dst_avif, r.files),
                                   !.converted = @ + 1]
                    /\ files' = r.files
                    /\ NextEntry
                    /\ UNCHANGED result
    /\ UNCHANGED <<args, env, manifest, crop, built>>

\* AssetStageTwo trying the conversion again when it failed
AssetStageTwoRetry ==
    /\ pc = "avif"
    /\ ~args.no_avif
    /\ \E outcome \in NextOutcomes :
        LET entry == manifest[idx]
            r == png_to_avif(entry.dst_png, entry.dst_avif, entry.lossless, args.jobs,
                             outcome, dirs, files, env.out_writable)
        IN  /\ calls' = Append(calls, Call("png_to_avif", entry.dst_avif, entry.lossless, r))
            /\ dirs' = r.dirs
            /\ files' = r.files
            /\ IF r.ret = "raised"
               THEN pc' = "raised" /\ UNCHANGED <<stats, idx, result>>
               ELSE IF r.ret = "False"
               THEN /\ stats' = [stats EXCEPT
                                   !.errors = Append(@, Label(entry) \o ": PNG→AVIF failed")]
                    /\ pc' = "avif"
                    /\ UNCHANGED <<idx, result>>
               ELSE /\ stats' = [stats EXCEPT
                                   !.avif_bytes = @ + file_size(entry.dst_avif, r.files),
                                   !.converted = @ + 1]
                    /\ NextEntry
                    /\ UNCHANGED result
    /\ UNCHANGED <<args, env, manifest, crop, built>>

\* AssetStageTwo taking the PNG's bytes back out of the total when the conversion fails
AssetStageTwoUncountPng ==
    /\ pc = "avif"
    /\ ~args.no_avif
    /\ \E outcome \in NextOutcomes :
        LET entry == manifest[idx]
            r == png_to_avif(entry.dst_png, entry.dst_avif, entry.lossless, args.jobs,
                             outcome, dirs, files, env.out_writable)
        IN  /\ calls' = Append(calls, Call("png_to_avif", entry.dst_avif, entry.lossless, r))
            /\ dirs' = r.dirs
            /\ files' = r.files
            /\ IF r.ret = "raised"
               THEN pc' = "raised" /\ UNCHANGED <<stats, idx, result>>
               ELSE IF r.ret = "False"
               THEN /\ stats' = [stats EXCEPT
                                   !.failed = @ + 1,
                                   !.png_bytes = @ - file_size(entry.dst_png, r.files),
                                   !.errors = Append(@, Label(entry) \o ": PNG→AVIF failed")]
                    /\ NextEntry
                    /\ UNCHANGED result
               ELSE /\ stats' = [stats EXCEPT
                                   !.avif_bytes = @ + file_size(entry.dst_avif, r.files),
                                   !.converted = @ + 1]
                    /\ NextEntry
                    /\ UNCHANGED result
    /\ UNCHANGED <<args, env, manifest, crop, built>>

\* lines 496-514 with AVIF conversion enabled: PNG to AVIF
AssetStageTwo ==
    /\ pc = "avif"
    /\ ~args.no_avif
    /\ \E outcome \in NextOutcomes :
        LET entry == manifest[idx]
            r == png_to_avif(entry.dst_png, entry.dst_avif, entry.lossless, args.jobs,
                             outcome, dirs, files, env.out_writable)
        IN  /\ calls' = Append(calls, Call("png_to_avif", entry.dst_avif, entry.lossless, r))
            /\ dirs' = r.dirs
            /\ files' = r.files
            /\ IF r.ret = "raised"
               THEN pc' = "raised" /\ UNCHANGED <<stats, idx, result>>
               ELSE IF r.ret = "False"
               THEN /\ stats' = [stats EXCEPT
                                   !.failed = @ + 1,
                                   !.errors = Append(@, Label(entry) \o ": PNG→AVIF failed")]
                    /\ NextEntry
                    /\ UNCHANGED result
               ELSE /\ stats' = [stats EXCEPT
                                   !.avif_bytes = @ + file_size(entry.dst_avif, r.files),
                                   !.converted = @ + 1]
                    /\ NextEntry
                    /\ UNCHANGED result
    /\ UNCHANGED <<args, env, manifest, crop, built>>

\* AssetPngOnly leaving the asset out of the converted count
AssetPngOnlyUncounted ==
    /\ pc = "avif"
    /\ args.no_avif
    /\ NextEntry
    /\ UNCHANGED <<args, env, result, manifest, crop, stats, files, dirs, calls, built>>

\* lines 496-514 with --no-avif: the PNG is the final output
AssetPngOnly ==
    /\ pc = "avif"
    /\ args.no_avif
    /\ stats' = [stats EXCEPT !.converted = @ + 1]
    /\ NextEntry
    /\ UNCHANGED <<args, env, result, manifest, crop, files, dirs, calls, built>>

\* lines 519, 522, 523
checkbox_png ==
    PathJoin(PathJoin(PathJoin(args.output_dir, "png"), "sprites"), "button_24_24_checkbox.png")
crop_png(crop_name) ==
    PathJoin(PathJoin(PathJoin(args.output_dir, "png"), "sprites"), crop_name \o ".png")
crop_avif(crop_name) ==
    PathJoin(PathJoin(PathJoin(args.output_dir, "avif"), "sprites"), crop_name \o ".avif")

\* CropGate without the test of line 520: the crop pass starts whether or not
\* the sheet's PNG exists
CropGateAlways ==
    /\ pc = "loop"
    /\ idx > Len(manifest)
    /\ pc' = "crops"
    /\ crop' = 1
    /\ UNCHANGED <<args, env, result, manifest, idx, stats, files, dirs, calls, built>>

\* lines 516-520 and 545-547: the loop is over; crops only if the sheet's PNG exists
CropGate ==
    /\ pc = "loop"
    /\ idx > Len(manifest)
    /\ IF checkbox_png \in files
       THEN pc' = "crops" /\ crop' = 1 /\ UNCHANGED stats
       ELSE /\ pc' = "summary"
            /\ stats' = [stats EXCEPT
                           !.warnings = Append(@, "Checkbox sprite sheet missing, crops skipped")]
            /\ UNCHANGED crop
    /\ UNCHANGED <<args, env, result, manifest, idx, files, dirs, calls, built>>

\* NextCrop going through the regions from the last to the first
NextCropBackward ==
    /\ crop' = IF crop = 1 THEN Len(CHECKBOX_REGIONS)
               ELSE IF crop = 2 THEN Len(CHECKBOX_REGIONS) + 1
               ELSE crop - 1
    /\ pc' = IF crop' <= Len(CHECKBOX_REGIONS) THEN "crops" ELSE "summary"

\* the crop pass goes to the next region, or ends
NextCrop ==
    /\ crop' = crop + 1
    /\ pc' = IF crop < Len(CHECKBOX_REGIONS) THEN "crops" ELSE "summary"

\* lines 521-527 and 542-544: crop one region out of the sheet
CropSprite ==
    /\ pc = "crops"
    /\ \E outcome \in NextOutcomes :
        LET crop_name == CHECKBOX_REGIONS[crop][1]
            region == CHECKBOX_REGIONS[crop][2]
            r == crop_sprite(checkbox_png, region, crop_png(crop_name), outcome,
                             dirs, files, env.out_writable)
        IN  /\ calls' = Append(calls, Call("crop_sprite", crop_png(crop_name), TRUE, r))
            /\ dirs' = r.dirs
            /\ files' = r.files
            /\ IF r.ret = "raised"
               THEN pc' = "raised" /\ UNCHANGED <<stats, crop, result>>
               ELSE IF r.ret = "False"
               THEN /\ stats' = [stats EXCEPT
                                   !.errors = Append(@, "sprites/" \o crop_name \o ": crop failed")]
                    /\ NextCrop
                    /\ UNCHANGED result
               ELSE /\ stats' = [stats EXCEPT
                                   !.png_bytes = @ + file_size(crop_png(crop_name), r.files)]
                    /\ pc' = "crop_avif"
                    /\ UNCHANGED <<crop, result>>
    /\ UNCHANGED <<args, env, manifest, idx, built>>

\* CropStageTwo with the lossy policy
CropStageTwoLossy ==
    /\ pc = "crop_avif"
    /\ ~args.no_avif
    /\ \E outcome \in NextOutcomes :
        LET crop_name == CHECKBOX_REGIONS[crop][1]
            r == png_to_avif(crop_png(crop_name), crop_avif(crop_name), FALSE, args.jobs,
                             outcome, dirs, files, env.out_writable)
        IN  /\ calls' = Append(calls, Call("png_to_avif", crop_avif(crop_name), FALSE, r))
            /\ dirs' = r.dirs
            /\ files' = r.files
            /\ IF r.ret = "raised"
               THEN pc' = "raised" /\ UNCHANGED <<stats, crop, result>>
               ELSE IF r.ret = "False"
               THEN /\ stats' = [stats EXCEPT
                                   !.errors = Append(@, "sprites/" \o crop_name \o ": PNG→AVIF failed")]
                    /\ NextCrop
                    /\ UNCHANGED result
               ELSE /\ stats' = [stats EXCEPT
                                   !.avif_bytes = @ + file_size(crop_avif(crop_name), r.files)]
                    /\ NextCrop
                    /\ UNCHANGED result
    /\ UNCHANGED <<args, env, manifest, idx, built>>

\* lines 529-539: the crop's PNG to AVIF, always lossless
CropStageTwo ==
    /\ pc = "crop_avif"
    /\ ~args.no_avif
    /\ \E outcome \in NextOutcomes :
        LET crop_name == CHECKBOX_REGIONS[crop][1]
            r == png_to_avif(crop_png(crop_name), crop_avif(crop_name), TRUE, args.jobs,
                             outcome, dirs, files, env.out_writable)
        IN  /\ calls' = Append(calls, Call("png_to_avif", crop_avif(crop_name), TRUE, r))
            /\ dirs' = r.dirs
            /\ files' = r.files
            /\ IF r.ret = "raised"
               THEN pc' = "raised" /\ UNCHANGED <<stats, crop, result>>
               ELSE IF r.ret = "False"
               THEN /\ stats' = [stats EXCEPT
                                   !.errors = Append(@, "sprites/" \o crop_name \o ": PNG→AVIF failed")]
                    /\ NextCrop
                    /\ UNCHANGED result
               ELSE /\ stats' = [stats EXCEPT
                                   !.avif_bytes = @ + file_size(crop_avif(crop_name), r.files)]
                    /\ NextCrop
                    /\ UNCHANGED result
    /\ UNCHANGED <<args, env, manifest, idx, built>>

\* lines 540-541 with --no-avif: the crop's PNG is the final output
CropPngOnly ==
    /\ pc = "crop_avif"
    /\ args.no_avif
    /\ NextCrop
    /\ UNCHANGED <<args, env, result, manifest, idx, stats, files, dirs, calls, built>>

\* lines 549-581: report, and return 1 if an asset was counted as failed
Summary ==
    /\ pc = "summary"
    /\ result' = IF stats.failed > 0 THEN 1 ELSE 0
    /\ pc' = "done"
    /\ UNCHANGED <<args, env, manifest, idx, crop, stats, files, dirs, calls, built>>

\* sys.exit(main()), lines 584-585: the exit status of the process
ExitStatus == IF pc = "raised" THEN 1 ELSE result

----------------------------------------------------------------------------
(* The runs of main() *)

\* defaults of --stellaris-path and --output-dir, lines 119 and 123
DefaultArgs ==
    [stellaris_path |-> <<"Stellaris">>, output_dir |-> <<"Media">>,
     no_avif |-> FALSE, dry_run |-> FALSE, jobs |-> 0]

\* values of --jobs: the default (all cores) and an explicit thread count
Jobs == {0, 4}

\* the value of --jobs in the runs of main(): the default, line 143
MainJobs == {DefaultArgs.jobs}

Member(k, v) == [k |-> k, v |-> v]

\* the metadata of the example: two technologies, one swap group
ExampleTechs ==
    JObj(<< Member("tech_lasers", JObj(<<Member("icon", JStr("laser_1"))>>)),
            Member("tech_armor", JObj(<<Member("icon", JStr("armor_1"))>>)) >>)

ExampleSwaps ==
    JObj(<< Member("group1", JArr(<< JObj(<<Member("name", JStr("laser_1"))>>),
                                     JObj(<<Member("name", JStr("special_swap"))>>) >>)) >>)

\* a technology without an icon
NoIconTechs == JObj(<< Member("tech_lasers", JObj(<<Member("name", JStr("laser_1"))>>)) >>)

\* a swap group that is a string instead of a list of records
StringGroupSwaps == JObj(<< Member("group1", JStr("laser_1")) >>)

\* a swap document that is a list instead of a mapping
ListSwaps == JArr(<< JObj(<<Member("name", JStr("laser_1"))>>) >>)

\* a technology document that is a list instead of a mapping
ListTechs == JArr(<< JObj(<<Member("icon", JStr("laser_1"))>>) >>)

MainTechFiles ==
    {AbsentFile, InvalidFile, JsonFile(ExampleTechs), JsonFile(NoIconTechs), JsonFile(ListTechs)}

MainSwapFiles ==
    {AbsentFile, InvalidFile, JsonFile(ExampleSwaps), JsonFile(StringGroupSwaps),
     JsonFile(ListSwaps)}

NoBuild == [exc |-> "none", manifest |-> <<>>]

\* a PNG of the sprite sheet left by an earlier run, with its directories
StaleFiles == {{}, {<<"Media", "png", "sprites", "button_24_24_checkbox.png">>}}

Init ==
    /\ args \in {[DefaultArgs EXCEPT !.no_avif = a, !.dry_run = d, !.jobs = j] :
                    a \in BOOLEAN, d \in BOOLEAN, j \in MainJobs}
    /\ env \in [tech_dir : BOOLEAN, tech_file : MainTechFiles, swap_file : MainSwapFiles,
                magick : BOOLEAN, avifenc : BOOLEAN, out_writable : BOOLEAN]
    /\ pc = "start"
    /\ result = -1
    /\ manifest = <<>>
    /\ idx = 0
    /\ crop = 0
    /\ stats = Stats(0)
    /\ files \in StaleFiles
    /\ dirs = UNION {Parents(Parent(f)) : f \in files}
    /\ calls = <<>>
    /\ built = NoBuild

Next ==
    \/ Preflight
    \/ BuildManifest
    \/ DryRun
    \/ CreateDirs
    \/ AssetSkip
    \/ AssetStageOne
    \/ AssetStageTwo
    \/ AssetPngOnly
    \/ CropGate
    \/ CropSprite
    \/ CropStageTwo
    \/ CropPngOnly
    \/ Summary

Spec == Init /\ [][Next]_vars

----------------------------------------------------------------------------
(* build_asset_manifest called on its own, on bounded metadata *)

\* most technologies in technologies.json, most swap records in technology_swaps.json
MaxTechs == 2
MaxSwaps == 2

\* icon names of technologies and names of swap records; "./laser_1" names the
\* file of "laser_1" by another text
TechIconNames == {"armor_1", "laser_1", "./laser_1"}
SwapNames == {"laser_1", "special_swap", "./laser_1"}

SeqsUpTo(S, n) == UNION {[1..k -> S] : k \in 0..n}

\* values of the technology mapping: records with an icon
TechValues == {JObj(<<Member("icon", JStr(n))>>) : n \in TechIconNames}

\* members of a swap list: records with a name, a record without, a string
SwapValues ==
    {JObj(<<Member("name", JStr(n))>>) : n \in SwapNames}
    \cup {JObj(<<Member("icon", JStr("laser_1"))>>), JStr("special_swap")}

TechDocs ==
    {JObj([i \in DOMAIN vs |-> Member("tech_" \o ToString(i), vs[i])]) :
        vs \in SeqsUpTo(TechValues, MaxTechs)}
    \cup {ListTechs, NoIconTechs,
          JObj(<<Member("tech_1", JStr("laser_1"))>>),
          JObj(<<Member("tech_1", JObj(<<Member("icon", JStr("laser_1"))>>)),
                 Member("tech_2", JObj(<<Member("name", JStr("armor_1"))>>))>>),
          JObj(<<Member("tech_1", JObj(<<Member("icon", JNum(5))>>))>>),
          JObj(<<Member("tech_1", JObj(<<Member("icon", JNum(5))>>)),
                 Member("tech_2", JObj(<<Member("icon", JStr("laser_1"))>>))>>),
          JObj(<<Member("tech_1", JObj(<<Member("icon", JArr(<<>>))>>))>>)}

\* the swap records xs in two groups, split after the j-th
TwoGroups(xs, j) ==
    JObj(<< Member("group1", JArr(SubSeq(xs, 1, j))),
            Member("group2", JArr(SubSeq(xs, j + 1, Len(xs)))) >>)

SwapDocs ==
    UNION {{TwoGroups(xs, j) : j \in 0..Len(xs)} : xs \in SeqsUpTo(SwapValues, MaxSwaps)}
    \cup {JObj(<<>>), ListSwaps, StringGroupSwaps,
          JObj(<<Member("group1", JNum(3))>>),
          JObj(<<Member("group1", JObj(<<Member("name", JStr("laser_1"))>>))>>),
          JObj(<<Member("group1", JArr(<<JNum(5)>>))>>),
          JObj(<<Member("group1", JArr(<<JStr("rename_1")>>))>>),
          JObj(<<Member("group1", JArr(<<JArr(<<JStr("laser_1")>>)>>))>>),
          JObj(<<Member("group1", JArr(<<JObj(<<Member("name", JNum(5))>>)>>))>>),
          JObj(<<Member("group1", JArr(<<JObj(<<Member("name", JArr(<<>>))>>)>>))>>)}

TechFiles == {AbsentFile, InvalidFile} \cup {JsonFile(d) : d \in TechDocs}
SwapFiles == {AbsentFile, InvalidFile} \cup {JsonFile(d) : d \in SwapDocs}

InitBuild ==
    /\ args = DefaultArgs
    /\ env \in [tech_dir : {TRUE}, tech_file : TechFiles, swap_file : SwapFiles,
                magick : {TRUE}, avifenc : {TRUE}, out_writable : {TRUE}]
    /\ pc = "call"
    /\ result = -1
    /\ manifest = <<>>
    /\ idx = 0
    /\ crop = 0
    /\ stats = Stats(0)
    /\ files = {}
    /\ dirs = {}
    /\ calls = <<>>
    /\ built = NoBuild

\* manifest = build_asset_manifest(stellaris_path, data_dir, output_dir, logger)
CallBuild ==
    /\ pc = "call"
    /\ built' = build_asset_manifest(args.stellaris_path, env.tech_file,
                                     env.swap_file, args.output_dir)
    /\ pc' = IF built'.exc = "none" THEN "returned" ELSE "raised"
    /\ UNCHANGED <<args, env, result, manifest, idx, crop, stats, files, dirs, calls>>

\* the members of a mapping in another order of the file
Reversed(xs) == [i \in DOMAIN xs |-> xs[Len(xs) + 1 - i]]
Rotated(xs) == IF xs = <<>> THEN xs ELSE Tail(xs) \o <<Head(xs)>>
Orders == {"same", "reversed", "rotated"}
Reordered(file, order) ==
    IF file.kind # "json" \/ file.value.t # "obj" \/ order = "same" THEN file
    ELSE IF order = "reversed"
    THEN JsonFile(JObj(Reversed(file.value.items)))
    ELSE JsonFile(JObj(Rotated(file.value.items)))

\* a second call on the same contents, the members of the two mappings in another
\* order; a manifest that is returned holds the fixed entries, so it is not empty
CallBuildAgain ==
    /\ pc = "returned"
    /\ \E order \in Orders :
          manifest' = build_asset_manifest(args.stellaris_path,
                                           Reordered(env.tech_file, order),
                                           Reordered(env.swap_file, order),
                                           args.output_dir).manifest
    /\ pc' = IF manifest' # <<>> THEN "returned_again" ELSE "raised_again"
    /\ UNCHANGED <<args, env, result, idx, crop, stats, files, dirs, calls, built>>

NextBuild == CallBuild \/ CallBuildAgain

SpecBuild == InitBuild /\ [][NextBuild]_vars

----------------------------------------------------------------------------
(* The stage operations called on their own: the destination's directory   *)
(* may be missing, and the output root may not be writable                 *)

\* most calls of one harness run
MaxCalls == 2

\* the sprite sheet's entry: source, intermediate and final path
SheetEntry ==
    LET m == FixedEntries(DefaultArgs.stellaris_path, DefaultArgs.output_dir)
    IN  m[Len(m)]

InitOps ==
    /\ args \in {[DefaultArgs EXCEPT !.jobs = j] : j \in Jobs}
    /\ env \in [tech_dir : {TRUE}, tech_file : {JsonFile(ExampleTechs)},
                swap_file : {JsonFile(ExampleSwaps)},
                magick : {TRUE}, avifenc : {TRUE}, out_writable : BOOLEAN]
    /\ pc = "call"
    /\ result = -1
    /\ manifest = <<>>
    /\ idx = 0
    /\ crop = 0
    /\ stats = Stats(0)
    /\ files = {}
    /\ dirs \in {{}, Parents(Parent(SheetEntry.dst_png))}
    /\ calls = <<>>
    /\ built = NoBuild

\* the harness has the operation's result: it goes on unless an exception reached it
Returned(op, dst, lossless, r) ==
    /\ calls' = Append(calls, Call(op, dst, lossless, r))
    /\ dirs' = r.dirs
    /\ files' = r.files
    /\ pc' = IF r.ret = "raised" THEN "raised" ELSE "call"
    /\ UNCHANGED <<args, env, result, manifest, idx, crop, stats, built>>

CallDdsToPng ==
    /\ pc = "call"
    /\ Len(calls) < MaxCalls
    /\ \E outcome \in Outcomes :
        Returned("dds_to_png", SheetEntry.dst_png, TRUE,
                 dds_to_png(SheetEntry.src_dds, SheetEntry.dst_png, outcome,
                            dirs, files, env.out_writable))

CallPngToAvif ==
    /\ pc = "call"
    /\ Len(calls) < MaxCalls
    /\ \E outcome \in Outcomes, lossless \in BOOLEAN :
        Returned("png_to_avif", SheetEntry.dst_avif, lossless,
                 png_to_avif(SheetEntry.dst_png, SheetEntry.dst_avif, lossless, args.jobs,
                             outcome, dirs, files, env.out_writable))

CallCropSprite ==
    /\ pc = "call"
    /\ Len(calls) < MaxCalls
    /\ \E outcome \in Outcomes, c \in DOMAIN CHECKBOX_REGIONS :
        LET dst == PathJoin(Parent(SheetEntry.dst_png), CHECKBOX_REGIONS[c][1] \o ".png")
        IN  Returned("crop_sprite", dst, TRUE,
                     crop_sprite(SheetEntry.dst_png, CHECKBOX_REGIONS[c][2], dst, outcome,
                                 dirs, files, env.out_writable))

NextOps == CallDdsToPng \/ CallPngToAvif \/ CallCropSprite

SpecOps == InitOps /\ [][NextOps]_vars

----------------------------------------------------------------------------
(* Properties of the runs of main()                                         *)

\* a conversion of an asset or of a crop returned False
StageFailed == \E i \in DOMAIN calls : calls[i].ret = "False"

\* the output tree as the run found it: the files, and the directories above them
Untouched ==
    /\ files \in StaleFiles
    /\ dirs = UNION {Parents(Parent(f)) : f \in files}

\* C1: a run that passed the pre-flight validation and is no dry run returns 1
\* exactly when a conversion of a manifest asset (stage one or stage two) or of a
\* sprite crop (crop_sprite or the crop's png_to_avif) failed, and 0 otherwise,
\* whatever the number of skipped assets.
C1_ExitStatusIffFailure ==
    pc = "done" => /\ result \in {0, 1}
                   /\ result = 1 <=> StageFailed

\* the step handles an asset whose source DDS is absent: the loop is at an asset and
\* records the "DDS missing" warning for it
SourceAbsentStep ==
    /\ pc = "loop"
    /\ idx <= Len(manifest)
    /\ stats'.warnings = Append(stats.warnings, Label(manifest[idx]) \o ": DDS missing")

\* asset j was handled by the loop: found missing, or given to dds_to_png
Handled(j) ==
    \/ \E w \in DOMAIN stats.warnings :
          stats.warnings[w] = Label(manifest[j]) \o ": DDS missing"
    \/ \E i \in DOMAIN calls :
          calls[i].op = "dds_to_png" /\ calls[i].dst = manifest[j].dst_png

\* the loop over the manifest is over
LoopOver == pc \in {"crops", "crop_avif", "summary", "done"}

\* C2: for an asset whose source DDS is absent the loop adds exactly one to
\* stats.skipped, leaves stats.failed alone, invokes no external tool, and goes on
\* with the next asset; when the loop is over every asset of the manifest has been
\* handled.
C2_SkipNotFail ==
    [][/\ SourceAbsentStep =>
            /\ stats'.skipped = stats.skipped + 1
            /\ stats'.failed = stats.failed
            /\ stats'.converted = stats.converted
            /\ calls' = calls
            /\ files' = files
            /\ idx' = idx + 1
            /\ pc' = "loop"
       /\ LoopOver' => \A j \in DOMAIN manifest' : Handled(j)']_vars

\* a source was found missing and a later asset of the manifest was converted
C2_Witness ==
    /\ pc = "done"
    /\ stats.skipped = 1
    /\ stats.failed = 0
    /\ stats.warnings = <<Label(manifest[1]) \o ": DDS missing">>
    /\ stats.converted = Len(manifest) - 1

\* the step is a stage two of a manifest asset that fails
StageTwoFailsStep ==
    /\ pc = "avif"
    /\ Len(calls') = Len(calls) + 1
    /\ calls'[Len(calls')].op = "png_to_avif"
    /\ calls'[Len(calls')].ret = "False"

\* C3: when stage one succeeded for an asset and its stage two fails, the asset's
\* intermediate PNG is still present afterwards, stats.failed grows by exactly
\* one, and stats.skipped and stats.converted do not change; no step of a run
\* deletes a file.
C3_StageIsolation ==
    [][/\ pc = "avif" => manifest[idx].dst_png \in files
       /\ StageTwoFailsStep =>
            /\ manifest[idx].dst_png \in files'
            /\ stats'.failed = stats.failed + 1
            /\ stats'.skipped = stats.skipped
            /\ stats'.converted = stats.converted
       /\ files \subseteq files']_vars

\* the run ended after the stage two of its first asset failed: the PNG is there
C3_Witness ==
    /\ pc = "done"
    /\ stats.failed = 1
    /\ stats.errors = <<Label(manifest[1]) \o ": PNG→AVIF failed">>
    /\ manifest[1].dst_png \in files
    /\ manifest[1].dst_avif \notin files

\* one of the four conditions of the pre-flight abort holds
PreflightFault ==
    \/ ~env.tech_dir
    \/ env.tech_file.kind = "absent"
    \/ ~env.magick
    \/ ~env.avifenc /\ ~args.no_avif

\* C4: if the installation lacks the expected subdirectory, technologies.json is
\* missing, magick is not found, or avifenc is not found while AVIF conversion is
\* enabled, main() returns 1 with no manifest built, no directory created and no
\* conversion invoked; otherwise the pre-flight validation does not end the run,
\* so a missing avifenc does not abort a run with --no-avif.
C4_PreflightAbort ==
    pc # "start" =>
        IF PreflightFault
        THEN /\ pc = "exit_preflight"
             /\ result = 1
             /\ manifest = <<>>
             /\ calls = <<>>
             /\ Untouched
        ELSE pc # "exit_preflight"

\* avifenc alone is missing and the run was aborted
C4_Witness ==
    /\ pc = "exit_preflight"
    /\ ~env.avifenc /\ ~args.no_avif
    /\ env.tech_dir /\ env.magick /\ env.tech_file.kind # "absent"

\* C5: in dry-run mode, once the pre-flight validation and the manifest
\* construction succeeded, the run creates no directory, writes no file, invokes
\* no stage operation and returns 0: it never reaches the creation of the output
\* directories or the loop.
C5_DryRunPurity ==
    args.dry_run =>
        /\ pc \in {"start", "exit_preflight", "build", "raised", "built", "exit_dry_run"}
        /\ calls = <<>>
        /\ Untouched
        /\ pc = "exit_dry_run" => result = 0 /\ manifest # <<>>
        /\ result \in {-1, 0, 1}
        /\ result = 0 <=> pc = "exit_dry_run"

\* a dry run returned after it listed the manifest
C5_Witness ==
    /\ args.dry_run
    /\ pc = "exit_dry_run"
    /\ result = 0
    /\ Len(manifest) > 0

\* a metadata document of the expected shape: a mapping to records carrying an icon
TechShape(file) ==
    /\ file.kind = "json"
    /\ file.value.t = "obj"
    /\ \A i \in DOMAIN file.value.items :
          LET tech == file.value.items[i].v
          IN  tech.t = "obj" /\ HasKey(tech, "icon")

\* a metadata document of the expected shape: a mapping to lists of records
SwapShape(file) ==
    /\ file.kind = "json"
    /\ file.value.t = "obj"
    /\ \A i \in DOMAIN file.value.items :
          LET group == file.value.items[i].v
          IN  /\ group.t = "arr"
              /\ \A k \in DOMAIN group.items : group.items[k].t = "obj"

\* the run ended with a failure status before it had a manifest
AbortedAtBuild ==
    /\ pc \in {"exit_preflight", "raised"}
    /\ ExitStatus = 1
    /\ manifest = <<>>
    /\ calls = <<>>
    /\ Untouched

Rejected(tech_file, swap_file) ==
    \/ ~TechShape(tech_file)
    \/ swap_file.kind # "json"
    \/ swap_file.value.t # "obj"

PolicyOf(category) == category \notin {"backgrounds", "ui"}

\* C9: every descriptor of the manifest main() gets has lossless = False when its
\* category is backgrounds or ui, and lossless = True when it is of another
\* category (tech_icons, swap_icons, category_icons, sprites); the stage two of
\* an asset calls png_to_avif once, for the asset's final path, with the policy
\* of the asset's descriptor.
C9_QualityPolicy ==
    [][/\ pc = "build" =>
            \A j \in DOMAIN manifest' :
                /\ manifest'[j].category \in
                      {"tech_icons", "swap_icons", "category_icons",
                       "backgrounds", "ui", "sprites"}
                /\ manifest'[j].lossless = PolicyOf(manifest'[j].category)
       /\ (pc = "avif" /\ ~args.no_avif) =>
            /\ Len(calls') = Len(calls) + 1
            /\ calls'[Len(calls')].op = "png_to_avif"
            /\ calls'[Len(calls')].dst = manifest[idx].dst_avif
            /\ calls'[Len(calls')].lossless = manifest[idx].lossless
            /\ calls'[Len(calls')].lossless = PolicyOf(manifest[idx].category)]_vars

\* a background was converted lossy and an icon lossless
C9_Witness ==
    /\ \E i \in DOMAIN calls :
          /\ calls[i].op = "png_to_avif"
          /\ calls[i].dst = <<"Media", "avif", "backgrounds", "tech_bg_physics.avif">>
          /\ ~calls[i].lossless
    /\ \E i \in DOMAIN calls :
          /\ calls[i].op = "png_to_avif"
          /\ calls[i].dst = <<"Media", "avif", "tech_icons", "laser_1.avif">>
          /\ calls[i].lossless

----------------------------------------------------------------------------
(* Properties of build_asset_manifest                                      *)

\* the icons of the technologies of a document of which the builder made a manifest
IconsOfTechs(techs) == {DictGet(techs.items[i].v, "icon") : i \in DOMAIN techs.items}

\* the names of the swap records of the document's groups that are lists
NamesOfSwaps(swaps) ==
    LET lists   == {g \in {swaps.items[i].v : i \in DOMAIN swaps.items} : g.t = "arr"}
        records == UNION {{g.items[k] : k \in DOMAIN g.items} : g \in lists}
    IN  {DictGet(r, "name") : r \in {x \in records : x.t = "obj" /\ HasKey(x, "name")}}

\* the names that are a technology's icon and a swap record's name
InBoth == IconsOfTechs(env.tech_file.value) \cap NamesOfSwaps(env.swap_file.value)

\* the descriptors of an icon name among the two icon categories
IconDescriptors(name) ==
    {j \in DOMAIN built.manifest :
        /\ built.manifest[j].name = name
        /\ built.manifest[j].category \in {"tech_icons", "swap_icons"}}

\* C7: for every icon name that is a technology's icon and a swap record's name,
\* the manifest build_asset_manifest returns has exactly one descriptor of that
\* name among the categories tech_icons and swap_icons, of category tech_icons.
C7_Deduplication ==
    pc = "returned" =>
        \A name \in InBoth :
            /\ Cardinality(IconDescriptors(name)) = 1
            /\ \A j \in IconDescriptors(name) : built.manifest[j].category = "tech_icons"

\* a manifest of a name of both documents and of a name of the swaps alone
C7_Witness ==
    /\ pc = "returned"
    /\ JStr("laser_1") \in InBoth
    /\ \E j \in DOMAIN built.manifest :
          /\ built.manifest[j].category = "swap_icons"
          /\ built.manifest[j].name = JStr("special_swap")

\* no two descriptors of the returned manifest have the same category and name
UniquePairs ==
    \A i, j \in DOMAIN built.manifest :
        (i # j) => \/ built.manifest[i].category # built.manifest[j].category
                   \/ built.manifest[i].name # built.manifest[j].name

\* no two descriptors of the returned manifest have the same intermediate path or
\* the same final path
UniquePaths ==
    \A i, j \in DOMAIN built.manifest :
        (i # j) => /\ built.manifest[i].dst_png # built.manifest[j].dst_png
                   /\ built.manifest[i].dst_avif # built.manifest[j].dst_avif

\* C8 as stated: no two descriptors of the manifest build_asset_manifest returns
\* share the pair (category, name), and no two of them share an intermediate path
\* or a final path.
C8_UniquePairsAndPaths == pc = "returned" => UniquePairs /\ UniquePaths

\* the name holds no path separator
NoSeparator(name) == name.t = "num" \/ ~IsSubstring("/", name.s)

\* C8, amended: no two descriptors of the manifest build_asset_manifest returns
\* share the pair (category, name); when no name of the manifest holds a path
\* separator, no two descriptors share an intermediate path or a final path.
C8_UniquePairs ==
    pc = "returned" =>
        /\ UniquePairs
        /\ (\A j \in DOMAIN built.manifest : NoSeparator(built.manifest[j].name))
              => UniquePaths

\* a manifest of two tech icons and a swap icon, no name with a separator
C8_Witness ==
    /\ pc = "returned"
    /\ \A j \in DOMAIN built.manifest : NoSeparator(built.manifest[j].name)
    /\ Cardinality({j \in DOMAIN built.manifest :
                       built.manifest[j].category = "tech_icons"}) = 2
    /\ \E j \in DOMAIN built.manifest : built.manifest[j].category = "swap_icons"

----------------------------------------------------------------------------
(* Properties of the stage operations                                      *)

\* C10: dds_to_png, png_to_avif and crop_sprite never raise to the caller: every
\* call, also one that cannot create the destination's directory, returns True
\* or False.
C10_NeverRaises ==
    /\ pc # "raised"
    /\ \A i \in DOMAIN calls : calls[i].ret \in {"True", "False"}

----------------------------------------------------------------------------
(* Properties of build_asset_manifest: order and determinism               *)

\* C11: two calls of build_asset_manifest with the same installation root, output
\* root and metadata contents return the same descriptor sequence (length, order,
\* name, category, paths and quality policy at every position), in whatever
\* order the metadata mappings list their members; the second call returns
\* whenever the first did.
C11_Determinism ==
    /\ pc # "raised_again"
    /\ pc = "returned_again" => manifest = built.manifest

\* the second call returned, on two technologies of different icons and two
\* groups of swap records
C11_Witness ==
    /\ pc = "returned_again"
    /\ Len(env.tech_file.value.items) = 2
    /\ JStr("armor_1") \in IconsOfTechs(env.tech_file.value)
    /\ JStr("laser_1") \in IconsOfTechs(env.tech_file.value)
    /\ JStr("special_swap") \in NamesOfSwaps(env.swap_file.value)
    /\ Len(manifest) = Len(FixedRelEntries) + 3

\* the order of the categories in a manifest
CategoryOrder ==
    <<"tech_icons", "swap_icons", "category_icons", "backgrounds", "ui", "sprites">>

Rank(category) == CHOOSE k \in DOMAIN CategoryOrder : CategoryOrder[k] = category

\* the names of the descriptors of a category, in the order of the manifest
NamesOf(category) ==
    LET ds == SelectSeq(built.manifest, LAMBDA e : e.category = category)
    IN  [k \in DOMAIN ds |-> ds[k].name]

\* C20: the manifest lists the categories in the order tech_icons, swap_icons,
\* category_icons, backgrounds, ui, sprites; the descriptors of tech_icons and of
\* swap_icons are in strictly ascending order of name; those of category_icons,
\* backgrounds, ui and sprites follow the declaration order of their fixed lists,
\* a category icon's name being "category_" followed by the category identifier.
C20_ManifestOrder ==
    pc = "returned" =>
        /\ \A i \in DOMAIN built.manifest :
              built.manifest[i].category \in Range(CategoryOrder)
        /\ \A i \in 1..(Len(built.manifest) - 1) :
              LET a == built.manifest[i]
                  b == built.manifest[i + 1]
              IN  /\ Rank(a.category) <= Rank(b.category)
                  /\ (a.category = b.category /\ a.category \in {"tech_icons", "swap_icons"})
                        => a.name.t = b.name.t /\ ValueLess(a.name, b.name)
        /\ NamesOf("category_icons") =
              [k \in DOMAIN CATEGORY_ICONS |-> JStr("category_" \o CATEGORY_ICONS[k])]
        /\ NamesOf("backgrounds") =
              [k \in DOMAIN BACKGROUND_TEXTURES |-> JStr(BACKGROUND_TEXTURES[k][1])]
        /\ NamesOf("ui") = [k \in DOMAIN UI_TEXTURES |-> JStr(UI_TEXTURES[k][1])]
        /\ NamesOf("sprites") = [k \in DOMAIN CHECKBOX_SPRITE |-> JStr(CHECKBOX_SPRITE[k][1])]

\* a manifest of two tech icons the file lists in descending order, and a swap icon
C20_Witness ==
    /\ pc = "returned"
    /\ Len(env.tech_file.value.items) = 2
    /\ DictGet(env.tech_file.value.items[1].v, "icon") = JStr("laser_1")
    /\ Len(built.manifest) = Len(FixedRelEntries) + 3
    /\ built.manifest[1].name = JStr("armor_1")
    /\ built.manifest[2].name = JStr("laser_1")
    /\ built.manifest[3].name = JStr("special_swap")
    /\ built.manifest[3].category = "swap_icons"
    /\ built.manifest[4].name = JStr("category_archaeostudies")

----------------------------------------------------------------------------
(* Properties of the runs of main(): accounting and order of the calls     *)

\* C12: a crop whose crop_sprite call or png_to_avif call fails is counted like a
\* failed manifest asset, stats.failed incremented and one error message
\* recorded: after the whole run the number of recorded error messages equals
\* stats.failed.
C12_CropAccounting == pc = "done" => Len(stats.errors) = stats.failed

\* the assets that reached a terminal state
Terminal == stats.converted + stats.skipped + stats.failed

\* C13: at every point of the main loop converted + skipped + failed is the number
\* of assets already processed, and when the main pass is over
\* converted + skipped + failed = total = length of the manifest.
C13_TerminalStates ==
    /\ pc \in {"loop", "avif"} =>
          /\ stats.total = Len(manifest)
          /\ Terminal = idx - 1
          /\ idx \in 1..(Len(manifest) + 1)
    /\ pc = "avif" => idx <= Len(manifest)
    /\ LoopOver =>
          /\ Terminal = stats.total
          /\ stats.total = Len(manifest)

\* the run is over, one asset failed its stage one and every other was converted
C13_Witness ==
    /\ pc = "done"
    /\ args.no_avif
    /\ stats.failed = 1
    /\ stats.skipped = 0
    /\ stats.converted = Len(manifest) - 1
    /\ Len(manifest) = Len(FixedRelEntries) + 3

\* the step invokes a stage operation: the call the step appends to the log
Invokes == Len(calls') > Len(calls)
NewCall == calls'[Len(calls')]

\* C14: png_to_avif is invoked for a manifest asset only right after dds_to_png
\* returned success for that asset in the same run; it is never invoked for an
\* asset that was skipped for a missing source or whose stage one failed.
C14_StageOrdering ==
    [][(Invokes /\ NewCall.op = "png_to_avif") =>
          \A j \in DOMAIN manifest :
              NewCall.dst = manifest[j].dst_avif =>
                  /\ calls # <<>>
                  /\ calls[Len(calls)].op = "dds_to_png"
                  /\ calls[Len(calls)].dst = manifest[j].dst_png
                  /\ calls[Len(calls)].ret = "True"
                  /\ \A i \in DOMAIN calls :
                        (calls[i].op = "dds_to_png" /\ calls[i].dst = manifest[j].dst_png)
                            => calls[i].ret = "True"
                  /\ \A w \in DOMAIN stats.warnings :
                        stats.warnings[w] # Label(manifest[j]) \o ": DDS missing"]_vars

\* the stage one of the first asset failed: the run made no png_to_avif call for
\* it, and made one for the second asset
C14_Witness ==
    /\ pc = "done"
    /\ ~args.no_avif
    /\ stats.errors = <<Label(manifest[1]) \o ": DDS→PNG failed">>
    /\ \A i \in DOMAIN calls : calls[i].dst # manifest[1].dst_avif
    /\ \E i \in DOMAIN calls :
          calls[i].op = "png_to_avif" /\ calls[i].dst = manifest[2].dst_avif

\* the path is the final-format root or under it
UnderAvif(path) ==
    /\ Len(path) > Len(args.output_dir)
    /\ SubSeq(path, 1, Len(args.output_dir)) = args.output_dir
    /\ path[Len(args.output_dir) + 1] = "avif"

\* C15: with --no-avif no step of a run invokes png_to_avif, for a manifest asset
\* or for a sprite crop, creates a directory or a file under the avif root, or
\* changes stats.avif_bytes from 0; an asset whose stage one succeeds is counted
\* as converted by the next step, and as nothing else.
C15_IntermediateOnly ==
    [][args.no_avif =>
          /\ Invokes => NewCall.op # "png_to_avif"
          /\ \A d \in dirs' \ dirs : ~UnderAvif(d)
          /\ \A f \in files' \ files : ~UnderAvif(f)
          /\ stats.avif_bytes = 0 /\ stats'.avif_bytes = 0
          /\ (Invokes /\ NewCall.op = "dds_to_png" /\ NewCall.ret = "True") =>
                pc' = "avif" /\ idx' = idx
          /\ pc = "avif" =>
                /\ stats'.converted = stats.converted + 1
                /\ stats'.failed = stats.failed
                /\ stats'.skipped = stats.skipped
                /\ idx' = idx + 1]_vars

\* a run with --no-avif is over: every asset converted, the three crops made
C15_Witness ==
    /\ pc = "done"
    /\ args.no_avif
    /\ stats.converted = Len(manifest)
    /\ \A c \in DOMAIN CHECKBOX_REGIONS : crop_png(CHECKBOX_REGIONS[c][1]) \in files
    /\ \A d \in dirs : ~UnderAvif(d)

\* the crop_sprite calls of a region
CropCalls(c) ==
    {i \in DOMAIN calls : /\ calls[i].op = "crop_sprite"
                          /\ calls[i].dst = crop_png(CHECKBOX_REGIONS[c][1])}

\* the calls of the crop pass
CropPassCalls ==
    {i \in DOMAIN calls :
        \/ calls[i].op = "crop_sprite"
        \/ \E c \in DOMAIN CHECKBOX_REGIONS : calls[i].dst = crop_avif(CHECKBOX_REGIONS[c][1])}

\* C16: after the main pass, if the sheet's intermediate PNG does not exist,
\* exactly one warning is recorded, stats.failed is unchanged and no crop_sprite
\* or png_to_avif is invoked for a crop region in the rest of the run; if it
\* exists, crop_sprite is invoked exactly once for each of the three regions.
C16_CropGating ==
    [][/\ (pc = "loop" /\ idx > Len(manifest)) =>
            IF checkbox_png \in files
            THEN /\ pc' = "crops"
                 /\ stats' = stats
                 /\ calls' = calls
            ELSE /\ pc' = "summary"
                 /\ stats'.warnings =
                       Append(stats.warnings, "Checkbox sprite sheet missing, crops skipped")
                 /\ stats'.failed = stats.failed
                 /\ stats'.errors = stats.errors
                 /\ calls' = calls
       /\ (pc = "summary" /\ pc' = "done") =>
            IF checkbox_png \in files
            THEN \A c \in DOMAIN CHECKBOX_REGIONS : Cardinality(CropCalls(c)) = 1
            ELSE CropPassCalls = {}]_vars

\* the stage two of the sheet failed, its PNG was kept, and the three crops were made
C16_Witness ==
    /\ pc = "done"
    /\ stats.errors = <<"sprites/button_24_24_checkbox: PNG→AVIF failed">>
    /\ checkbox_png \in files
    /\ \A c \in DOMAIN CHECKBOX_REGIONS : Cardinality(CropCalls(c)) = 1
    /\ Len(CHECKBOX_REGIONS) = 3

\* the place of a call in the order of a run: the two stages of the first asset,
\* of the second, ..., then crop and conversion of the first region, of the
\* second, ...; 0 for a call of no asset and no region
Place(call) ==
    LET n == Len(manifest)
        asset == {j \in DOMAIN manifest :
                     \/ call.op = "dds_to_png" /\ call.dst = manifest[j].dst_png
                     \/ call.op = "png_to_avif" /\ call.dst = manifest[j].dst_avif}
        region == {c \in DOMAIN CHECKBOX_REGIONS :
                     \/ call.op = "crop_sprite" /\ call.dst = crop_png(CHECKBOX_REGIONS[c][1])
                     \/ call.op = "png_to_avif" /\ call.dst = crop_avif(CHECKBOX_REGIONS[c][1])}
        second == IF call.op = "png_to_avif" THEN 0 ELSE 1
    IN  IF asset # {} THEN 2 * (CHOOSE j \in asset : TRUE) - second
        ELSE IF region # {} THEN 2 * n + 2 * (CHOOSE c \in region : TRUE) - second
        ELSE 0

\* C17: a step invokes at most one stage operation and the log of the earlier
\* invocations is kept; the invocations of a run follow the order
\* of the manifest and then the declaration order of the regions; when an
\* operation is invoked for asset i+1 the assets 1..i are accounted for, and when
\* crop_sprite is invoked every asset of the manifest is.
C17_StrictSequencing ==
    [][Invokes =>
          /\ Len(calls') = Len(calls) + 1
          /\ SubSeq(calls', 1, Len(calls)) = calls
          /\ Place(NewCall) > 0
          /\ calls # <<>> => Place(calls[Len(calls)]) < Place(NewCall)
          /\ Place(NewCall) <= 2 * Len(manifest) =>
                Terminal = (Place(NewCall) + 1) \div 2 - 1
          /\ Place(NewCall) > 2 * Len(manifest) => Terminal = Len(manifest)]_vars

\* a run in which every operation was invoked, two for each asset and each region
C17_Witness ==
    /\ pc = "done"
    /\ Len(calls) = 2 * Len(manifest) + 2 * Len(CHECKBOX_REGIONS)
    /\ \A i \in DOMAIN calls : Place(calls[i]) = i

\* C18: in one run dds_to_png is invoked at most once for a manifest asset,
\* png_to_avif at most once for a manifest asset and at most once for a crop, and
\* crop_sprite at most once for a crop region: no step invokes an operation for a
\* destination for which the run invoked it before, whether it failed or not.
C18_NoRetry ==
    [][Invokes =>
          \A i \in DOMAIN calls :
              ~(calls[i].op = NewCall.op /\ calls[i].dst = NewCall.dst)]_vars

\* the conversion of the first region's crop failed and the run went on to the end
C18_Witness ==
    /\ pc = "done"
    /\ stats.errors = <<"sprites/checkbox_normal: PNG→AVIF failed">>
    /\ Len(calls) = 2 * Len(manifest) + 2 * Len(CHECKBOX_REGIONS)
    /\ Cardinality({i \in DOMAIN calls : calls[i].ret = "False"}) = 1

\* the region a png_to_avif call converts the crop of
RegionOf(call) ==
    {c \in DOMAIN CHECKBOX_REGIONS : call.dst = crop_avif(CHECKBOX_REGIONS[c][1])}

\* C19: png_to_avif is invoked for a sprite crop only right after crop_sprite
\* returned success for that crop, only when AVIF conversion is enabled, and with
\* lossless = True; with AVIF conversion enabled a run of three successful crops
\* invokes it for each of the three regions.
C19_CropLossless ==
    [][/\ (Invokes /\ NewCall.op = "png_to_avif") =>
            \A c \in RegionOf(NewCall) :
                /\ ~args.no_avif
                /\ NewCall.lossless
                /\ calls # <<>>
                /\ calls[Len(calls)].op = "crop_sprite"
                /\ calls[Len(calls)].dst = crop_png(CHECKBOX_REGIONS[c][1])
                /\ calls[Len(calls)].ret = "True"
       /\ (pc = "summary" /\ pc' = "done" /\ ~args.no_avif) =>
            \A c \in DOMAIN CHECKBOX_REGIONS :
                (\E i \in CropCalls(c) : calls[i].ret = "True")
                    => \E i \in DOMAIN calls :
                          /\ calls[i].op = "png_to_avif"
                          /\ calls[i].lossless
                          /\ c \in RegionOf(calls[i])]_vars

\* the three crops were made and converted, each with the lossless policy
C19_Witness ==
    /\ pc = "done"
    /\ \A c \in DOMAIN CHECKBOX_REGIONS :
          \E i \in DOMAIN calls :
              /\ calls[i].op = "png_to_avif"
              /\ c \in RegionOf(calls[i])
              /\ calls[i].lossless
              /\ calls[i].ret = "True"
              /\ calls[i - 1].op = "crop_sprite"

\* the fields of Stats that are counters or byte totals
Counters ==
    {"total", "converted", "skipped", "failed", "dds_bytes", "png_bytes", "avif_bytes"}
StatsFields == Counters \cup {"errors", "warnings"}

\* the step changes no field of stats but those of the set
OnlyChanges(fields) == \A f \in StatsFields \ fields : stats'[f] = stats[f]

\* the step is a stage one, or a stage two, of the manifest asset the loop is at,
\* and returns ret
StageStep(op, ret) ==
    /\ pc \in {"loop", "avif"}
    /\ Invokes
    /\ NewCall.op = op
    /\ NewCall.ret = ret

\* C21: handling a skipped asset changes only stats.skipped and stats.warnings; a
\* stage-one failure changes only stats.failed, stats.errors and stats.dds_bytes;
\* an asset whose stage two fails has changed stats.dds_bytes and stats.png_bytes
\* in its stage one and changes only stats.failed and stats.errors in its stage
\* two, never stats.avif_bytes; stats.total does not change once the loop has
\* started; no step of a run decreases a counter or a byte total.
C21_Frame ==
    [][/\ SourceAbsentStep => OnlyChanges({"skipped", "warnings"})
       /\ StageStep("dds_to_png", "False") => OnlyChanges({"failed", "errors", "dds_bytes"})
       /\ StageStep("dds_to_png", "True") => OnlyChanges({"dds_bytes", "png_bytes"})
       /\ StageStep("png_to_avif", "False") => OnlyChanges({"failed", "errors"})
       /\ pc = "avif" => (args.no_avif \/ StageStep("png_to_avif", "True")
                                       \/ StageStep("png_to_avif", "False"))
       /\ pc \notin {"start", "build", "built"} => stats'.total = stats.total
       /\ \A f \in Counters : stats'[f] >= stats[f]]_vars

\* the stage two of the second asset failed: its bytes are in the DDS and PNG
\* totals, and only the converted assets and the crops are in the AVIF total
C21_Witness ==
    /\ pc = "done"
    /\ ~args.no_avif
    /\ stats.skipped = 0
    /\ stats.errors = <<Label(manifest[2]) \o ": PNG→AVIF failed">>
    /\ stats.failed = 1
    /\ stats.dds_bytes = DdsSize * Len(manifest)
    /\ stats.png_bytes = PngSize * (Len(manifest) + Len(CHECKBOX_REGIONS))
    /\ stats.avif_bytes = AvifSize * (Len(manifest) - 1 + Len(CHECKBOX_REGIONS))

====
